---- MODULE Spec2Model ----
(***************************************************************************)
(* Image gallery core: UINavigator (bounded counter with wraparound),      *)
(* ImageCache (id -> image map) and ImageLoader (cache -> disk ->          *)
(* placeholder pipeline behind a single-shot timer).                       *)
(***************************************************************************)
EXTENDS Integers, Sequences, FiniteSets, TLC

\* ------------------------------------------------------------------ bounds

\* Largest image id / maximum id handed to the navigator.
MaxId == 3
\* How far below zero the integer inputs of the navigator range.
NegDepth == 2
\* How far below zero m_currentImageId may drift before previous() is no
\* longer explored (the counter itself is an unbounded int in the code).
DriftDepth == 3
\* Most image files the directory scan may discover.
MaxPaths == 1
\* Largest configured gallery size (maxImages) explored.
MaxConfigured == 2
\* Most loadImageAsync calls issued in one behaviour.
MaxRequests == 3
\* Most loadImageAsync calls issued in one behaviour of the fair loader.
MaxFairRequests == 2
\* Largest key used in direct ImageCache calls (keys start at -1).
MaxCacheId == 1
\* Most button clicks in one behaviour of the application.
MaxClicks == 3

\* main(): the gallery size handed to the ImageLoader.
MAX_GALLERY_IMAGES == 15

InitialIds == (0 - NegDepth)..(MaxId + 1)
MaxIds     == (0 - NegDepth)..MaxId

\* ------------------------------------------------------------------ state

VARIABLES
    m_currentImageId,   \* UINavigator::m_currentImageId
    m_maxImageId,       \* UINavigator::m_maxImageId
    call,               \* the last navigator call: operation, argument,
                        \* state before it, return value, signals emitted
    callBefore,         \* the navigator call before that one
    run,                \* consecutive next() calls since the id was 0, or -1
    m_imagePaths,       \* ImageLoader::m_imagePaths, index = image id
    m_maxConfiguredImages,  \* ImageLoader::m_maxConfiguredImages
    previewValid,       \* whether ImageLoader::m_maxPreviewSize is non-empty
    cachePtr,           \* whether ImageLoader::m_imageCache is non-null
    m_imageCache,       \* ImageCache::m_imageCache, the id -> image hash
    timers,             \* pending QTimer::singleShot units, oldest first
    signals,            \* imageLoaded / loadingError emitted so far, in order
    nCalls,             \* loadImageAsync calls issued so far
    lastLoad,           \* the last loader step: the call or the timer unit,
                        \* with the cache and queue lengths before it
    cacheCall,          \* the last direct ImageCache call and its result
    imageLabel,         \* the image MainGalleryWindow's imageLabel shows, or
                        \* the null image when it shows text only
    delivery            \* the loader signal the window's slot received in the
                        \* last step, with the label before it

navVars == <<m_currentImageId, m_maxImageId, call, callBefore, run>>

configVars == <<m_imagePaths, m_maxConfiguredImages, previewValid, cachePtr>>

loaderVars == <<m_imagePaths, m_maxConfiguredImages, previewValid, cachePtr,
                m_imageCache, timers, signals, nCalls, lastLoad, cacheCall>>

windowVars == <<imageLabel, delivery>>

vars == <<m_currentImageId, m_maxImageId, call, callBefore, run,
          m_imagePaths, m_maxConfiguredImages, previewValid, cachePtr,
          m_imageCache, timers, signals, nCalls, lastLoad, cacheCall,
          imageLabel, delivery>>

\* ------------------------------------------------------------- arithmetic

\* C++ operator % on int for a positive divisor: truncation toward zero, so
\* the result takes the sign of the dividend.
CRem(a, b) == IF a >= 0 THEN a % b ELSE 0 - ((0 - a) % b)

\* The mathematical remainder, in 0..b-1.
Mod(a, b) == a % b

\* ------------------------------------------------------------ UINavigator

\* A navigator call as observed by its caller.
Outcome(cur, max, ret, emitted) ==
    [cur |-> cur, max |-> max, ret |-> ret, emitted |-> emitted]

\* The constructor clamps below first, then above.
UINavigator(initialImageId, maxImageId) ==
    LET c1 == IF initialImageId < 0 THEN 0 ELSE initialImageId
        c2 == IF c1 > maxImageId THEN maxImageId ELSE c1
    IN  Outcome(c2, maxImageId, "void", <<>>)

\* Variant: the signal is emitted whenever the maximum changes.
NavSetMaxImageIdAlwaysEmits(cur, max, maxIdArg) ==
    LET maxId == IF maxIdArg < 0 THEN 0 ELSE maxIdArg
    IN  IF max # maxId
        THEN IF cur > maxId
             THEN Outcome(maxId, maxId, "void", <<maxId>>)
             ELSE Outcome(cur, maxId, "void", <<cur>>)
        ELSE Outcome(cur, max, "void", <<>>)

\* Variant: a negative argument is stored as it is.
NavSetMaxImageIdNoClamp(cur, max, maxIdArg) ==
    LET maxId == maxIdArg
    IN  IF max # maxId
        THEN IF cur > maxId
             THEN Outcome(maxId, maxId, "void", <<maxId>>)
             ELSE Outcome(cur, maxId, "void", <<>>)
        ELSE Outcome(cur, max, "void", <<>>)

NavSetMaxImageId(cur, max, maxIdArg) ==
    LET maxId == IF maxIdArg < 0 THEN 0 ELSE maxIdArg
    IN  IF max # maxId
        THEN IF cur > maxId
             THEN Outcome(maxId, maxId, "void", <<maxId>>)
             ELSE Outcome(cur, maxId, "void", <<>>)
        ELSE Outcome(cur, max, "void", <<>>)

\* Variant: next() stops at the last id instead of wrapping.
NavNextStopsAtEnd(cur, max) ==
    IF max < 0
    THEN Outcome(cur, max, "false", <<>>)
    ELSE IF cur < max
         THEN Outcome(cur + 1, max, "true", <<cur + 1>>)
         ELSE Outcome(cur, max, "false", <<>>)

NavNext(cur, max) ==
    IF max < 0
    THEN Outcome(cur, max, "false", <<>>)
    ELSE LET c == CRem(cur + 1, max + 1)
         IN  Outcome(c, max, "true", <<c>>)

\* Variant: previous() without the empty-gallery guard.
NavPreviousUnguarded(cur, max) ==
    LET c == IF cur = 0 THEN max ELSE cur - 1
    IN  Outcome(c, max, "true", <<c>>)

\* Variant: previous() stops at id 0 instead of wrapping.
NavPreviousStopsAtZero(cur, max) ==
    IF max < 0
    THEN Outcome(cur, max, "false", <<>>)
    ELSE IF cur > 0
         THEN Outcome(cur - 1, max, "true", <<cur - 1>>)
         ELSE Outcome(cur, max, "false", <<>>)

NavPrevious(cur, max) ==
    IF max < 0
    THEN Outcome(cur, max, "false", <<>>)
    ELSE LET c == IF cur = 0 THEN max ELSE cur - 1
         IN  Outcome(c, max, "true", <<c>>)

\* ------------------------------------------------------------- ImageCache

\* QImage values: a decoded file, a generated placeholder, or the null image.
NullImage == [kind |-> "null", id |-> -1, scaled |-> FALSE]

EmptyCache == [x \in {} |-> NullImage]

\* Variant: setImage without the null check.
CacheSetImageStoresNull(cache, id, image) ==
    [x \in (DOMAIN cache) \cup {id} |-> IF x = id THEN image ELSE cache[x]]

\* Variant: setImage keeps an entry already stored under id.
CacheSetImageKeepsFirst(cache, id, image) ==
    IF image = NullImage \/ id \in DOMAIN cache
    THEN cache
    ELSE [x \in (DOMAIN cache) \cup {id} |-> IF x = id THEN image ELSE cache[x]]

CacheSetImage(cache, id, image) ==
    IF image = NullImage
    THEN cache
    ELSE [x \in (DOMAIN cache) \cup {id} |-> IF x = id THEN image ELSE cache[x]]

CacheContains(cache, id) == id \in DOMAIN cache

\* Variant: getImage answers a miss with a non-null default image.
CacheGetImageDefaultOnMiss(cache, id) ==
    IF id \in DOMAIN cache
    THEN cache[id]
    ELSE [kind |-> "placeholder", id |-> id, scaled |-> FALSE]

CacheGetImage(cache, id) ==
    IF id \in DOMAIN cache THEN cache[id] ELSE NullImage

\* Variant: removeImage erases from a copy and leaves the hash as it was.
CacheRemoveImageOnCopy(cache, id) == cache

CacheRemoveImage(cache, id) ==
    [x \in (DOMAIN cache) \ {id} |-> cache[x]]

CacheClear(cache) == EmptyCache

\* A direct cache call as observed: operation, arguments, the cache before
\* it and the value returned (getImage: the image; contains: in `found`).
CacheRecord(op, id, image, before, result, found) ==
    [op |-> op, id |-> id, image |-> image, before |-> before,
     result |-> result, found |-> found]

NoCacheCall == CacheRecord("none", 0, NullImage, EmptyCache, NullImage, FALSE)

\* Keys and images passed to the cache directly: QHash<int, QImage> takes
\* any int, and any QImage including the null one.
CacheIds == (-1)..MaxCacheId

TestImages ==
    {NullImage,
     [kind |-> "file", id |-> 0, scaled |-> TRUE],
     [kind |-> "placeholder", id |-> 0, scaled |-> TRUE]}

\* ------------------------------------------------------------ ImageLoader

Max(a, b) == IF a >= b THEN a ELSE b

\* Variant: only the discovered files are counted.
imageCountPathsOnly == Len(m_imagePaths)

\* qMax(m_imagePaths.size(), m_maxConfiguredImages)
imageCount == Max(Len(m_imagePaths), m_maxConfiguredImages)

\* QImage(m_maxPreviewSize, ...) is null for an empty size.
generatePlaceholderImage(id) ==
    IF previewValid
    THEN [kind |-> "placeholder", id |-> id, scaled |-> FALSE]
    ELSE NullImage

\* QImage::load of m_imagePaths.at(id): the decoded file, or null on failure.
LoadFromDisk(id, decodes) ==
    IF decodes
    THEN [kind |-> "file", id |-> m_imagePaths[id + 1], scaled |-> FALSE]
    ELSE NullImage

\* QImage::scaled(m_maxPreviewSize, ...) returns null for an empty size.
Scaled(image) ==
    IF previewValid THEN [image EXCEPT !.scaled = TRUE] ELSE NullImage

Signal(req, id, kind, image, message, sync) ==
    [req |-> req, id |-> id, kind |-> kind, image |-> image,
     message |-> message, sync |-> sync]

\* Variant: the cache-hit branch emits but does not return, so the deferred
\* unit is scheduled as well.
LoadImageAsyncSyncNoReturn(req, id) ==
    IF id < 0 \/ id >= imageCount
    THEN [emits |-> <<Signal(req, id, "loadingError", NullImage,
                             "Image ID out of bounds.", TRUE)>>,
          schedules |-> FALSE]
    ELSE IF cachePtr /\ CacheContains(m_imageCache, id)
         THEN [emits |-> <<Signal(req, id, "imageLoaded",
                                  CacheGetImage(m_imageCache, id), "", TRUE)>>,
               schedules |-> TRUE]
         ELSE [emits |-> <<>>, schedules |-> TRUE]

\* Variant: the bounds check lets id = imageCount() through.
LoadImageAsyncSyncOffByOne(req, id) ==
    IF id < 0 \/ id > imageCount
    THEN [emits |-> <<Signal(req, id, "loadingError", NullImage,
                             "Image ID out of bounds.", TRUE)>>,
          schedules |-> FALSE]
    ELSE IF cachePtr /\ CacheContains(m_imageCache, id)
         THEN [emits |-> <<Signal(req, id, "imageLoaded",
                                  CacheGetImage(m_imageCache, id), "", TRUE)>>,
               schedules |-> FALSE]
         ELSE [emits |-> <<>>, schedules |-> TRUE]

\* Variant: the cache is never consulted, every in-bounds id is deferred.
LoadImageAsyncSyncIgnoresCache(req, id) ==
    IF id < 0 \/ id >= imageCount
    THEN [emits |-> <<Signal(req, id, "loadingError", NullImage,
                             "Image ID out of bounds.", TRUE)>>,
          schedules |-> FALSE]
    ELSE [emits |-> <<>>, schedules |-> TRUE]

\* Variant: a cache miss generates and emits the image inside the call.
LoadImageAsyncSyncLoadsInline(req, id) ==
    IF id < 0 \/ id >= imageCount
    THEN [emits |-> <<Signal(req, id, "loadingError", NullImage,
                             "Image ID out of bounds.", TRUE)>>,
          schedules |-> FALSE]
    ELSE IF cachePtr /\ CacheContains(m_imageCache, id)
         THEN [emits |-> <<Signal(req, id, "imageLoaded",
                                  CacheGetImage(m_imageCache, id), "", TRUE)>>,
               schedules |-> FALSE]
         ELSE [emits |-> <<Signal(req, id, "imageLoaded",
                                  Scaled(generatePlaceholderImage(id)), "",
                                  TRUE)>>,
               schedules |-> FALSE]

\* Variant: a miss for an id that already has a pending unit is coalesced
\* with it and schedules nothing.
LoadImageAsyncSyncCoalesces(req, id) ==
    IF id < 0 \/ id >= imageCount
    THEN [emits |-> <<Signal(req, id, "loadingError", NullImage,
                             "Image ID out of bounds.", TRUE)>>,
          schedules |-> FALSE]
    ELSE IF cachePtr /\ CacheContains(m_imageCache, id)
         THEN [emits |-> <<Signal(req, id, "imageLoaded",
                                  CacheGetImage(m_imageCache, id), "", TRUE)>>,
               schedules |-> FALSE]
         ELSE [emits |-> <<>>,
               schedules |-> \A i \in DOMAIN timers : timers[i].id # id]

\* Variant: the bounds check has no upper limit.
LoadImageAsyncSyncNoUpperBound(req, id) ==
    IF id < 0
    THEN [emits |-> <<Signal(req, id, "loadingError", NullImage,
                             "Image ID out of bounds.", TRUE)>>,
          schedules |-> FALSE]
    ELSE IF cachePtr /\ CacheContains(m_imageCache, id)
         THEN [emits |-> <<Signal(req, id, "imageLoaded",
                                  CacheGetImage(m_imageCache, id), "", TRUE)>>,
               schedules |-> FALSE]
         ELSE [emits |-> <<>>, schedules |-> TRUE]

\* Variant: without a cache an in-bounds request returns at once, silently.
LoadImageAsyncSyncNeedsCache(req, id) ==
    IF id < 0 \/ id >= imageCount
    THEN [emits |-> <<Signal(req, id, "loadingError", NullImage,
                             "Image ID out of bounds.", TRUE)>>,
          schedules |-> FALSE]
    ELSE IF ~cachePtr
         THEN [emits |-> <<>>, schedules |-> FALSE]
         ELSE IF CacheContains(m_imageCache, id)
              THEN [emits |-> <<Signal(req, id, "imageLoaded",
                                       CacheGetImage(m_imageCache, id), "",
                                       TRUE)>>,
                    schedules |-> FALSE]
              ELSE [emits |-> <<>>, schedules |-> TRUE]

\* What the synchronous part of loadImageAsync(id) does: the signals it
\* emits before returning and whether it schedules the deferred unit.
LoadImageAsyncSync(req, id) ==
    IF id < 0 \/ id >= imageCount
    THEN [emits |-> <<Signal(req, id, "loadingError", NullImage,
                             "Image ID out of bounds.", TRUE)>>,
          schedules |-> FALSE]
    ELSE IF cachePtr /\ CacheContains(m_imageCache, id)
         THEN [emits |-> <<Signal(req, id, "imageLoaded",
                                  CacheGetImage(m_imageCache, id), "", TRUE)>>,
               schedules |-> FALSE]
         ELSE [emits |-> <<>>, schedules |-> TRUE]

\* Variant: the deferred unit emits nothing when no image was produced.
DeferredLoadSilentOnFailure(req, id, decodes) ==
    LET loadedImage ==
            IF id < Len(m_imagePaths)
            THEN LET fromDisk == LoadFromDisk(id, decodes)
                 IN  IF fromDisk = NullImage
                     THEN generatePlaceholderImage(id)
                     ELSE fromDisk
            ELSE generatePlaceholderImage(id)
    IN  IF loadedImage # NullImage
        THEN LET scaledImage == Scaled(loadedImage)
             IN  [cache |-> IF cachePtr
                            THEN CacheSetImage(m_imageCache, id, scaledImage)
                            ELSE m_imageCache,
                  emits |-> <<Signal(req, id, "imageLoaded", scaledImage,
                                     "", FALSE)>>,
                  disk |-> id < Len(m_imagePaths)]
        ELSE [cache |-> m_imageCache, emits |-> <<>>,
              disk |-> id < Len(m_imagePaths)]

\* Variant: a decode failure is reported as an error, with no fallback to
\* the placeholder.
DeferredLoadNoFallback(req, id, decodes) ==
    LET loadedImage ==
            IF id < Len(m_imagePaths)
            THEN LoadFromDisk(id, decodes)
            ELSE generatePlaceholderImage(id)
    IN  IF loadedImage # NullImage
        THEN LET scaledImage == Scaled(loadedImage)
             IN  [cache |-> IF cachePtr
                            THEN CacheSetImage(m_imageCache, id, scaledImage)
                            ELSE m_imageCache,
                  emits |-> <<Signal(req, id, "imageLoaded", scaledImage,
                                     "", FALSE)>>,
                  disk |-> id < Len(m_imagePaths)]
        ELSE [cache |-> m_imageCache,
              emits |-> <<Signal(req, id, "loadingError", NullImage,
                                 "Failed to load or generate image.", FALSE)>>,
              disk |-> id < Len(m_imagePaths)]

\* Variant: the path table is never consulted, every id gets a placeholder.
DeferredLoadNeverReadsDisk(req, id, decodes) ==
    LET loadedImage == generatePlaceholderImage(id)
    IN  IF loadedImage # NullImage
        THEN LET scaledImage == Scaled(loadedImage)
             IN  [cache |-> IF cachePtr
                            THEN CacheSetImage(m_imageCache, id, scaledImage)
                            ELSE m_imageCache,
                  emits |-> <<Signal(req, id, "imageLoaded", scaledImage,
                                     "", FALSE)>>,
                  disk |-> FALSE]
        ELSE [cache |-> m_imageCache,
              emits |-> <<Signal(req, id, "loadingError", NullImage,
                                 "Failed to load or generate image.", FALSE)>>,
              disk |-> FALSE]

\* Variant: the placeholder that replaces a failed decode is notified but
\* not cached.
DeferredLoadDoesNotCacheFallback(req, id, decodes) ==
    LET fromDisk == IF id < Len(m_imagePaths)
                    THEN LoadFromDisk(id, decodes)
                    ELSE NullImage
        fellBack == id < Len(m_imagePaths) /\ fromDisk = NullImage
        loadedImage == IF fromDisk = NullImage
                       THEN generatePlaceholderImage(id)
                       ELSE fromDisk
    IN  IF loadedImage # NullImage
        THEN LET scaledImage == Scaled(loadedImage)
             IN  [cache |-> IF cachePtr /\ ~fellBack
                            THEN CacheSetImage(m_imageCache, id, scaledImage)
                            ELSE m_imageCache,
                  emits |-> <<Signal(req, id, "imageLoaded", scaledImage,
                                     "", FALSE)>>,
                  disk |-> id < Len(m_imagePaths)]
        ELSE [cache |-> m_imageCache,
              emits |-> <<Signal(req, id, "loadingError", NullImage,
                                 "Failed to load or generate image.", FALSE)>>,
              disk |-> id < Len(m_imagePaths)]

\* Variant: the cache keeps only the newest image: storing one evicts the
\* entries of all other ids.
DeferredLoadEvictsOthers(req, id, decodes) ==
    LET loadedImage ==
            IF id < Len(m_imagePaths)
            THEN LET fromDisk == LoadFromDisk(id, decodes)
                 IN  IF fromDisk = NullImage
                     THEN generatePlaceholderImage(id)
                     ELSE fromDisk
            ELSE generatePlaceholderImage(id)
    IN  IF loadedImage # NullImage
        THEN LET scaledImage == Scaled(loadedImage)
             IN  [cache |-> IF cachePtr
                            THEN CacheSetImage(EmptyCache, id, scaledImage)
                            ELSE m_imageCache,
                  emits |-> <<Signal(req, id, "imageLoaded", scaledImage,
                                     "", FALSE)>>,
                  disk |-> id < Len(m_imagePaths)]
        ELSE [cache |-> m_imageCache,
              emits |-> <<Signal(req, id, "loadingError", NullImage,
                                 "Failed to load or generate image.", FALSE)>>,
              disk |-> id < Len(m_imagePaths)]

\* What the deferred unit of request req for id does when its timer fires:
\* the cache afterwards and the signals it emits.
DeferredLoad(req, id, decodes) ==
    LET loadedImage ==
            IF id < Len(m_imagePaths)
            THEN LET fromDisk == LoadFromDisk(id, decodes)
                 IN  IF fromDisk = NullImage
                     THEN generatePlaceholderImage(id)
                     ELSE fromDisk
            ELSE generatePlaceholderImage(id)
    IN  IF loadedImage # NullImage
        THEN LET scaledImage == Scaled(loadedImage)
             IN  [cache |-> IF cachePtr
                            THEN CacheSetImage(m_imageCache, id, scaledImage)
                            ELSE m_imageCache,
                  emits |-> <<Signal(req, id, "imageLoaded", scaledImage,
                                     "", FALSE)>>,
                  disk |-> id < Len(m_imagePaths)]
        ELSE [cache |-> m_imageCache,
              emits |-> <<Signal(req, id, "loadingError", NullImage,
                                 "Failed to load or generate image.", FALSE)>>,
              disk |-> id < Len(m_imagePaths)]

\* A loader step as observed: which request and id, whether the disk was
\* read and whether that decode succeeded, and the state before the step.
LoadRecord(op, req, id, disk, decodes) ==
    [op |-> op, req |-> req, id |-> id, disk |-> disk,
     decodes |-> disk /\ decodes, cache |-> m_imageCache,
     nTimers |-> Len(timers), nSignals |-> Len(signals)]

NoLoad == [op |-> "none", req |-> 0, id |-> 0, disk |-> FALSE,
           decodes |-> FALSE, cache |-> EmptyCache,
           nTimers |-> 0, nSignals |-> 0]

\* One call of loadImageAsync(id): request number nCalls + 1.
LoaderCall(id) ==
    LET req == nCalls + 1
        now == LoadImageAsyncSync(req, id)
    IN  /\ nCalls' = req
        /\ signals' = signals \o now.emits
        /\ timers' = IF now.schedules
                     THEN Append(timers, [req |-> req, id |-> id])
                     ELSE timers
        /\ lastLoad' = LoadRecord("call", req, id, FALSE, FALSE)
        /\ UNCHANGED <<m_imageCache, cacheCall, configVars>>

\* Variant: a unit that is no longer the newest request is cancelled: it is
\* dropped without loading, caching or emitting.
TimerStepCancelsStale(decodes) ==
    LET unit == Head(timers)
        done == DeferredLoad(unit.req, unit.id, decodes)
        stale == Len(timers) > 1
    IN  /\ timers' = Tail(timers)
        /\ m_imageCache' = IF stale THEN m_imageCache ELSE done.cache
        /\ signals' = IF stale THEN signals ELSE signals \o done.emits
        /\ lastLoad' = LoadRecord("timer", unit.req, unit.id, done.disk, decodes)
        /\ UNCHANGED <<nCalls, cacheCall, configVars>>

\* Variant: the newest pending unit runs first.
TimerStepNewestFirst(decodes) ==
    LET unit == timers[Len(timers)]
        done == DeferredLoad(unit.req, unit.id, decodes)
    IN  /\ timers' = SubSeq(timers, 1, Len(timers) - 1)
        /\ m_imageCache' = done.cache
        /\ signals' = signals \o done.emits
        /\ lastLoad' = LoadRecord("timer", unit.req, unit.id, done.disk, decodes)
        /\ UNCHANGED <<nCalls, cacheCall, configVars>>

\* The oldest pending single-shot timer fires and runs its lambda.
TimerStep(decodes) ==
    LET unit == Head(timers)
        done == DeferredLoad(unit.req, unit.id, decodes)
    IN  /\ timers' = Tail(timers)
        /\ m_imageCache' = done.cache
        /\ signals' = signals \o done.emits
        /\ lastLoad' = LoadRecord("timer", unit.req, unit.id, done.disk, decodes)
        /\ UNCHANGED <<nCalls, cacheCall, configVars>>

loadImageAsync ==
    /\ nCalls < MaxRequests
    /\ \E id \in (-1)..imageCount : LoaderCall(id)
    /\ UNCHANGED <<navVars, windowVars>>

timerFired ==
    /\ timers # <<>>
    /\ \E decodes \in BOOLEAN : TimerStep(decodes)
    /\ UNCHANGED <<navVars, windowVars>>

\* The loader after construction: nPaths files discovered by
\* populateImagePaths, an empty cache, nothing pending.
LoaderConstructed(nPaths, maxImages, sizeOk, withCache) ==
    /\ m_imagePaths = [i \in 1..nPaths |-> i - 1]
    /\ m_maxConfiguredImages = maxImages
    /\ previewValid = sizeOk
    /\ cachePtr = withCache
    /\ m_imageCache = EmptyCache
    /\ timers = <<>>
    /\ signals = <<>>
    /\ nCalls = 0
    /\ lastLoad = NoLoad
    /\ cacheCall = NoCacheCall

\* ------------------------------------------------------ MainGalleryWindow

\* updateImageDisplay: the label shows the pixmap of the image; a null image
\* clears the pixmap and leaves text only.
updateImageDisplay(image) ==
    IF image = NullImage THEN NullImage ELSE image

\* Variant: the slot shows every image it receives.
onImageLoadedNoCheck(label, current, id, image) ==
    updateImageDisplay(image)

\* Slot of ImageLoader::imageLoaded: what the label shows afterwards.
onImageLoaded(label, current, id, image) ==
    IF id = current THEN updateImageDisplay(image) ELSE label

\* Slot of ImageLoader::loadingError: the label of the current id is cleared
\* (the warning box changes no state of the three components).
onLoadingError(label, current, id) ==
    IF id = current THEN NullImage ELSE label

NoDelivery == [kind |-> "none", id |-> 0, image |-> NullImage,
               before |-> NullImage]

\* The window's slots run inside the emit: the signals of one step reach
\* the window in that step, while the navigator's id is `current`.
WindowReceives(emits, current) ==
    IF emits = <<>>
    THEN /\ imageLabel' = imageLabel
         /\ delivery' = NoDelivery
    ELSE LET s == emits[1]
         IN  /\ imageLabel' =
                    IF s.kind = "imageLoaded"
                    THEN onImageLoaded(imageLabel, current, s.id, s.image)
                    ELSE onLoadingError(imageLabel, current, s.id)
             /\ delivery' = [kind |-> s.kind, id |-> s.id, image |-> s.image,
                             before |-> imageLabel]

\* No window is connected: the label is blank and nothing was delivered.
NoWindow ==
    /\ imageLabel = NullImage
    /\ delivery = NoDelivery

\* ------------------------------------------------- navigator as a machine

CallRecord(op, arg, out) ==
    [op |-> op, arg |-> arg, cur |-> m_currentImageId, max |-> m_maxImageId,
     ret |-> out.ret, emitted |-> out.emitted]

NoCall == [op |-> "none", arg |-> 0, cur |-> 0, max |-> 0,
           ret |-> "void", emitted |-> <<>>]

\* The run counter after a call that left the id at c: next() extends an
\* anchored run, anything else re-anchors it at id 0.
RunLimit == 2 * (MaxId + 1)

RunAfter(op, c) ==
    IF op = "next" /\ run >= 0 /\ run < RunLimit
    THEN run + 1
    ELSE IF c = 0 THEN 0 ELSE -1

NavStep(op, arg, out) ==
    /\ m_currentImageId' = out.cur
    /\ m_maxImageId' = out.max
    /\ call' = CallRecord(op, arg, out)
    /\ callBefore' = call
    /\ run' = RunAfter(op, out.cur)

next ==
    /\ TRUE   \* no guard: next() may be called in every state
    /\ NavStep("next", 0, NavNext(m_currentImageId, m_maxImageId))
    /\ UNCHANGED <<loaderVars, windowVars>>

previous ==
    /\ m_currentImageId > 0 - DriftDepth
    /\ NavStep("previous", 0, NavPrevious(m_currentImageId, m_maxImageId))
    /\ UNCHANGED <<loaderVars, windowVars>>

setMaxImageId ==
    /\ TRUE   \* no guard: any int may be passed in every state
    /\ \E m \in MaxIds :
          NavStep("setMaxImageId", m,
                  NavSetMaxImageId(m_currentImageId, m_maxImageId, m))
    /\ UNCHANGED <<loaderVars, windowVars>>

ConstructedWith(initialImageId, maxImageId) ==
    LET out == UINavigator(initialImageId, maxImageId)
    IN  /\ m_currentImageId = out.cur
        /\ m_maxImageId = out.max
        /\ call = [op |-> "ctor", arg |-> initialImageId,
                   cur |-> initialImageId, max |-> maxImageId,
                   ret |-> "void", emitted |-> <<>>]
        /\ callBefore = NoCall
        /\ run = IF out.cur = 0 THEN 0 ELSE -1

\* Any construction, then any sequence of next / previous / setMaxImageId.
InitNav ==
    /\ \E i \in InitialIds, m \in MaxIds : ConstructedWith(i, m)
    /\ LoaderConstructed(0, 0, TRUE, TRUE)
    /\ NoWindow

NextNav == next \/ previous \/ setMaxImageId

SpecNav == InitNav /\ [][NextNav]_vars

\* Construction with a non-negative maximum and no later setMaxImageId.
InitNavFixed ==
    /\ \E i \in InitialIds, m \in 0..MaxId : ConstructedWith(i, m)
    /\ LoaderConstructed(0, 0, TRUE, TRUE)
    /\ NoWindow

NextNavFixed == next \/ previous

SpecNavFixed == InitNavFixed /\ [][NextNavFixed]_vars

\* A loader over any directory content and configuration, then any sequence
\* of requests and timer expiries; the navigator stays as constructed.
InitLoader ==
    /\ ConstructedWith(0, 0)
    /\ \E n \in 0..MaxPaths, c \in 0..MaxConfigured, sizeOk \in BOOLEAN,
          withCache \in BOOLEAN :
          LoaderConstructed(n, c, sizeOk, withCache)
    /\ NoWindow

NextLoader == loadImageAsync \/ timerFired

SpecLoader == InitLoader /\ [][NextLoader]_vars

\* The event loop runs every timer that has expired.
NextLoaderFair == (nCalls < MaxFairRequests /\ loadImageAsync) \/ timerFired

FairSpecLoader ==
    InitLoader /\ [][NextLoaderFair]_vars /\ WF_vars(timerFired)

\* ------------------------------------------------- the cache as a machine

\* What a direct cache call leaves alone.
cacheFrame ==
    <<navVars, configVars, timers, signals, nCalls, lastLoad, windowVars>>

setImage ==
    /\ \E id \in CacheIds, image \in TestImages :
          /\ m_imageCache' = CacheSetImage(m_imageCache, id, image)
          /\ cacheCall' = CacheRecord("setImage", id, image, m_imageCache,
                                      NullImage, FALSE)
    /\ UNCHANGED cacheFrame

getImage ==
    /\ \E id \in CacheIds :
          cacheCall' = CacheRecord("getImage", id, NullImage, m_imageCache,
                                   CacheGetImage(m_imageCache, id), FALSE)
    /\ UNCHANGED <<m_imageCache, cacheFrame>>

contains ==
    /\ \E id \in CacheIds :
          cacheCall' = CacheRecord("contains", id, NullImage, m_imageCache,
                                   NullImage, CacheContains(m_imageCache, id))
    /\ UNCHANGED <<m_imageCache, cacheFrame>>

removeImage ==
    /\ \E id \in CacheIds :
          /\ m_imageCache' = CacheRemoveImage(m_imageCache, id)
          /\ cacheCall' = CacheRecord("removeImage", id, NullImage,
                                      m_imageCache, NullImage, FALSE)
    /\ UNCHANGED cacheFrame

clear ==
    /\ m_imageCache' = CacheClear(m_imageCache)
    /\ cacheCall' = CacheRecord("clear", 0, NullImage, m_imageCache,
                                NullImage, FALSE)
    /\ UNCHANGED cacheFrame

\* An empty cache, then any sequence of direct cache calls.
InitCache ==
    /\ ConstructedWith(0, 0)
    /\ LoaderConstructed(0, 0, TRUE, TRUE)
    /\ NoWindow

NextCache == setImage \/ getImage \/ contains \/ removeImage \/ clear

SpecCache == InitCache /\ [][NextCache]_vars

\* ------------------------------------------- the application as a machine

\* Variant: the navigator is bounded by the image count itself.
MainNavigatorMaxOffByOne == imageCount

\* main(): the maximum id handed to the navigator.
MainNavigatorMax == imageCount - 1

\* The loader signals emitted in this step.
Emitted == SubSeq(signals', Len(signals) + 1, Len(signals'))

\* Variant: the slot updates the labels but requests no load.
onImageIdChangedNoLoad(newId) ==
    /\ UNCHANGED loaderVars
    /\ WindowReceives(<<>>, newId)

\* Slot of UINavigator::imageIdChanged: requests the new image; a cache hit
\* is delivered to onImageLoaded before the slot returns.
onImageIdChanged(newId) ==
    /\ LoaderCall(newId)
    /\ WindowReceives(Emitted, newId)

\* A navigation call made from a button handler, with the slots it triggers.
Clicked(op, out) ==
    /\ NavStep(op, 0, out)
    /\ IF out.emitted = <<>>
       THEN /\ UNCHANGED loaderVars
            /\ WindowReceives(<<>>, out.cur)
       ELSE onImageIdChanged(out.emitted[1])

\* updateNavigationButtons enables both buttons iff the maximum id the
\* window read at construction is positive; nothing changes it afterwards.
on_nextButton_clicked ==
    /\ m_maxImageId > 0
    /\ nCalls <= MaxClicks
    /\ Clicked("next", NavNext(m_currentImageId, m_maxImageId))

on_prevButton_clicked ==
    /\ m_maxImageId > 0
    /\ nCalls <= MaxClicks
    /\ Clicked("previous", NavPrevious(m_currentImageId, m_maxImageId))

\* A single-shot timer fires while the window is connected: the lambda's
\* signal reaches the window's slot before the lambda returns.
singleShotExpired ==
    /\ timers # <<>>
    /\ \E decodes \in BOOLEAN :
          /\ TimerStep(decodes)
          /\ WindowReceives(Emitted, m_currentImageId)
    /\ UNCHANGED navVars

\* main(): cache, loader over any directory content, navigator built with
\* (0, imageCount() - 1) and then setMaxImageId(imageCount() - 1), window
\* constructed, which requests the image of the current id.
InitApp ==
    /\ \E n \in 0..MaxPaths : m_imagePaths = [i \in 1..n |-> i - 1]
    /\ m_maxConfiguredImages = MAX_GALLERY_IMAGES
    /\ previewValid = TRUE
    /\ cachePtr = TRUE
    /\ m_imageCache = EmptyCache
    /\ cacheCall = NoCacheCall
    /\ LET built == UINavigator(0, MainNavigatorMax)
           set == NavSetMaxImageId(built.cur, built.max, MainNavigatorMax)
       IN  /\ m_currentImageId = set.cur
           /\ m_maxImageId = set.max
           /\ call = [op |-> "setMaxImageId", arg |-> MainNavigatorMax,
                      cur |-> built.cur, max |-> built.max,
                      ret |-> "void", emitted |-> set.emitted]
           /\ callBefore = [op |-> "ctor", arg |-> 0, cur |-> 0,
                            max |-> MainNavigatorMax,
                            ret |-> "void", emitted |-> <<>>]
           /\ run = IF set.cur = 0 THEN 0 ELSE -1
    /\ LET now == LoadImageAsyncSync(1, m_currentImageId)
       IN  /\ nCalls = 1
           /\ signals = now.emits
           /\ timers = IF now.schedules
                       THEN <<[req |-> 1, id |-> m_currentImageId]>>
                       ELSE <<>>
           /\ lastLoad = [op |-> "call", req |-> 1, id |-> m_currentImageId,
                          disk |-> FALSE, decodes |-> FALSE,
                          cache |-> EmptyCache, nTimers |-> 0, nSignals |-> 0]
           \* the cache is empty: nothing is delivered inside the call
           /\ imageLabel = NullImage
           /\ delivery = NoDelivery

NextApp == on_nextButton_clicked \/ on_prevButton_clicked \/ singleShotExpired

SpecApp == InitApp /\ [][NextApp]_vars

\* ----------------------------------------------------- navigator properties

\* C1: whenever maxId >= 0, 0 <= currentId <= maxId, in every state reached
\* by any construction followed by next / previous / setMaxImageId.
C1_IdWithinBounds ==
    m_maxImageId >= 0 =>
        (0 <= m_currentImageId /\ m_currentImageId <= m_maxImageId)

\* C2: a navigator constructed with maxImageId < 0 has currentImageId() = 0.
C2_EmptyGalleryStartsAtZero ==
    (call.op = "ctor" /\ call.max < 0) => m_currentImageId = 0

\* C3: while maxId < 0, next() and previous() return false, change neither
\* currentId nor maxId, and emit no imageIdChanged.
C3_EmptyGalleryNoNavigation ==
    (call.op \in {"next", "previous"} /\ call.max < 0) =>
        /\ call.ret = "false"
        /\ m_currentImageId = call.cur
        /\ m_maxImageId = call.max
        /\ call.emitted = <<>>

C3_Witness ==
    /\ call.op = "previous" /\ call.max < 0 /\ call.ret = "false"
    /\ callBefore.op = "next" /\ callBefore.max < 0
    /\ callBefore.ret = "false"

\* C4: whenever maxId >= 0, next() sets currentId to
\* (currentId + 1) mod (maxId + 1), returns true, keeps maxId and emits
\* exactly one imageIdChanged carrying the new currentId.
C4_NextIsModular ==
    (call.op = "next" /\ call.max >= 0) =>
        /\ m_currentImageId = Mod(call.cur + 1, call.max + 1)
        /\ call.ret = "true"
        /\ m_maxImageId = call.max
        /\ call.emitted = <<m_currentImageId>>

C7_NegativeMaxResetsToZero ==
    (call.op = "setMaxImageId" /\ call.arg < 0) =>
        (m_maxImageId = 0 /\ m_currentImageId = 0)

\* C8: setMaxImageId(m) emits imageIdChanged exactly when it lowers
\* currentId to the new max, carrying that id; when the normalized m equals
\* the current maxId nothing changes and nothing is emitted; when the new max
\* is >= currentId, currentId is unchanged and nothing is emitted.
C8_SetMaxEmitsOnClamp ==
    call.op = "setMaxImageId" =>
        LET norm == IF call.arg < 0 THEN 0 ELSE call.arg
        IN  /\ (call.emitted # <<>>) <=>
                   (m_currentImageId < call.cur /\ m_currentImageId = m_maxImageId)
            /\ call.emitted # <<>> => call.emitted = <<m_currentImageId>>
            /\ norm = call.max =>
                   /\ m_currentImageId = call.cur
                   /\ m_maxImageId = call.max
                   /\ call.emitted = <<>>
            /\ norm >= call.cur =>
                   (m_currentImageId = call.cur /\ call.emitted = <<>>)

C8_Witness ==
    /\ call.op = "setMaxImageId"
    /\ call.arg >= 1
    /\ call.cur > call.arg
    /\ m_currentImageId = call.arg
    /\ call.emitted = <<call.arg>>

\* -------------------------------------------------------- loader properties

\* The positions in the signal log that answer request r.
Answers(r) == {i \in DOMAIN signals : signals[i].req = r}

\* C9: every loadImageAsync call produces at most one terminal notification
\* (imageLoaded or loadingError, never both, never two of a kind), on the
\* out-of-bounds, cache-hit and deferred paths alike.
C9_AtMostOneNotification ==
    \A r \in 1..nCalls : Cardinality(Answers(r)) <= 1

C9_Witness ==
    /\ timers = <<>>
    /\ Len(signals) = 3
    /\ \E i, j, k \in DOMAIN signals :
          /\ signals[i].kind = "loadingError" /\ signals[i].sync
          /\ signals[j].kind = "imageLoaded" /\ signals[j].sync
          /\ signals[k].kind = "imageLoaded" /\ ~signals[k].sync
          /\ {signals[i].req, signals[j].req, signals[k].req} = 1..3

\* C10: every loadImageAsync call is eventually answered by a terminal
\* notification, given that the event loop runs every expired timer,
\* whatever other requests are issued meanwhile.
C10_EveryRequestAnswered ==
    \A r \in 1..MaxFairRequests : (nCalls >= r) ~> (Answers(r) # {})

C10_Witness ==
    \E i, j \in DOMAIN signals :
        /\ i < j
        /\ signals[i].req = 2 /\ signals[i].sync
        /\ signals[j].req = 1 /\ ~signals[j].sync

\* The id fails the bounds check of loadImageAsync.
OutOfBounds(id) == id < 0 \/ id >= imageCount

\* The signals emitted by the last loader step.
NewSignals == SubSeq(signals, lastLoad.nSignals + 1, Len(signals))

\* The last loader step scheduled nothing.
NothingScheduled ==
    /\ Len(timers) = lastLoad.nTimers
    /\ \A i \in DOMAIN timers : timers[i].req # lastLoad.req

\* The cache held id when the last loader step began.
WasCached(id) == cachePtr /\ id \in DOMAIN lastLoad.cache

\* C11: for id < 0 or id >= imageCount() (id = imageCount() included),
\* loadImageAsync(id) emits loadingError(id, "Image ID out of bounds.")
\* before it returns, schedules no deferred work, emits no imageLoaded and
\* leaves the cache unchanged.
C11_OutOfBoundsIsSynchronousError ==
    (lastLoad.op = "call" /\ OutOfBounds(lastLoad.id)) =>
        /\ NewSignals = <<Signal(lastLoad.req, lastLoad.id, "loadingError",
                                 NullImage, "Image ID out of bounds.", TRUE)>>
        /\ NothingScheduled
        /\ \A i \in Answers(lastLoad.req) : signals[i].kind # "imageLoaded"
        /\ m_imageCache = lastLoad.cache

C11_Witness ==
    /\ lastLoad.op = "call"
    /\ imageCount >= 1
    /\ lastLoad.id = imageCount
    /\ timers # <<>>
    /\ DOMAIN m_imageCache # {}
    /\ signals[Len(signals)].kind = "loadingError"
    /\ signals[Len(signals)].req = lastLoad.req

\* C12: for an in-bounds id that the cache contains at call time,
\* loadImageAsync(id) emits imageLoaded(id, cached image) before it returns,
\* schedules no deferred work, reads no file and leaves the cache unchanged.
C12_CacheHitIsSynchronous ==
    (lastLoad.op = "call" /\ ~OutOfBounds(lastLoad.id)
        /\ WasCached(lastLoad.id)) =>
        /\ NewSignals = <<Signal(lastLoad.req, lastLoad.id, "imageLoaded",
                                 lastLoad.cache[lastLoad.id], "", TRUE)>>
        /\ NothingScheduled
        /\ ~lastLoad.disk
        /\ m_imageCache = lastLoad.cache

C12_Witness ==
    /\ lastLoad.op = "call"
    /\ WasCached(lastLoad.id)
    /\ timers # <<>>
    /\ signals[Len(signals)].kind = "imageLoaded"
    /\ signals[Len(signals)].sync
    /\ signals[Len(signals)].image = m_imageCache[lastLoad.id]
    /\ signals[Len(signals)].image.kind = "file"

\* C13: for an in-bounds id not in the cache at call time, loadImageAsync(id)
\* emits nothing and does not touch the cache before it returns; it schedules
\* exactly one deferred unit, and the notification and the cache write happen
\* only when that unit runs.
C13_CacheMissIsDeferred ==
    /\ (lastLoad.op = "call" /\ ~OutOfBounds(lastLoad.id)
           /\ ~WasCached(lastLoad.id)) =>
           /\ NewSignals = <<>>
           /\ timers = SubSeq(timers, 1, lastLoad.nTimers)
                          \o <<[req |-> lastLoad.req, id |-> lastLoad.id]>>
    /\ lastLoad.op = "call" => m_imageCache = lastLoad.cache
    /\ \A i \in DOMAIN timers : Answers(timers[i].req) = {}
    /\ \A i \in DOMAIN signals :
           ~signals[i].sync =>
               \/ i <= lastLoad.nSignals
               \/ lastLoad.op = "timer" /\ signals[i].req = lastLoad.req
    /\ lastLoad.op = "timer" =>
           /\ Len(timers) = lastLoad.nTimers - 1
           /\ \A x \in (DOMAIN m_imageCache) \cup (DOMAIN lastLoad.cache) :
                  x # lastLoad.id =>
                      /\ x \in DOMAIN m_imageCache
                      /\ x \in DOMAIN lastLoad.cache
                      /\ m_imageCache[x] = lastLoad.cache[x]

C13_Witness ==
    /\ lastLoad.op = "timer"
    /\ lastLoad.nTimers = 2
    /\ lastLoad.id \notin DOMAIN lastLoad.cache
    /\ lastLoad.id \in DOMAIN m_imageCache
    /\ Len(NewSignals) = 1
    /\ ~NewSignals[1].sync
    /\ NewSignals[1].req = lastLoad.req

\* C14 as claimed: whenever a deferred load for id X runs, it stores its
\* scaled image in the cache under X and emits imageLoaded(X, that image), so
\* that right after the notification the cache maps X to the notified image.
C14_AlwaysStoresAndNotifies ==
    lastLoad.op = "timer" =>
        /\ Len(NewSignals) = 1
        /\ NewSignals[1].kind = "imageLoaded"
        /\ NewSignals[1].id = lastLoad.id
        /\ lastLoad.id \in DOMAIN m_imageCache
        /\ m_imageCache[lastLoad.id] = NewSignals[1].image

\* C14, amended: a deferred load for id X is never cancelled, whatever was
\* requested after it: it emits exactly one notification for X. With a cache
\* and a non-empty preview size that is imageLoaded(X, scaled image) and the
\* cache then maps X to the notified image; without a cache, or with an empty
\* preview size, nothing is stored, and with an empty preview size the
\* notification is loadingError or an imageLoaded carrying the null image.
C14_NoCancellation ==
    lastLoad.op = "timer" =>
        /\ Len(NewSignals) = 1
        /\ NewSignals[1].req = lastLoad.req
        /\ NewSignals[1].id = lastLoad.id
        /\ ~NewSignals[1].sync
        /\ (cachePtr /\ previewValid) =>
               /\ NewSignals[1].kind = "imageLoaded"
               /\ NewSignals[1].image # NullImage
               /\ NewSignals[1].image.scaled
               /\ lastLoad.id \in DOMAIN m_imageCache
               /\ m_imageCache[lastLoad.id] = NewSignals[1].image
        /\ (~cachePtr \/ ~previewValid) => m_imageCache = lastLoad.cache
        /\ ~previewValid =>
               \/ NewSignals[1].kind = "loadingError"
               \/ NewSignals[1].image = NullImage

C14_Witness ==
    /\ lastLoad.op = "timer"
    /\ lastLoad.req = 1
    /\ nCalls = 3
    /\ Len(timers) = 2
    /\ \A i \in DOMAIN timers : timers[i].id # lastLoad.id
    /\ cachePtr /\ previewValid
    /\ NewSignals[1].kind = "imageLoaded"
    /\ m_imageCache[lastLoad.id] = NewSignals[1].image

\* C15: a decode failure for an in-bounds id produces no loadingError: the
\* deferred unit substitutes the placeholder of that id and emits
\* imageLoaded; loadingError is emitted only for out-of-bounds ids or when no
\* image at all could be produced.
C15_DecodeFailureFallsBack ==
    /\ (lastLoad.op = "timer" /\ lastLoad.disk /\ ~lastLoad.decodes
           /\ generatePlaceholderImage(lastLoad.id) # NullImage) =>
           NewSignals = <<Signal(lastLoad.req, lastLoad.id, "imageLoaded",
                                 Scaled(generatePlaceholderImage(lastLoad.id)),
                                 "", FALSE)>>
    /\ \A i \in DOMAIN signals :
           signals[i].kind = "loadingError" =>
               \/ OutOfBounds(signals[i].id)
               \/ generatePlaceholderImage(signals[i].id) = NullImage

C15_Witness ==
    /\ lastLoad.op = "timer" /\ lastLoad.disk /\ ~lastLoad.decodes
    /\ Len(NewSignals) = 1
    /\ NewSignals[1].kind = "imageLoaded"
    /\ NewSignals[1].image.kind = "placeholder"
    /\ NewSignals[1].image.id = lastLoad.id
    /\ cachePtr
    /\ m_imageCache[lastLoad.id] = NewSignals[1].image

\* --------------------------------------------------------- cache properties

\* The last direct cache call removes or replaces the entry of key x.
Overwrites(x) ==
    \/ cacheCall.op = "removeImage" /\ cacheCall.id = x
    \/ cacheCall.op = "clear"
    \/ cacheCall.op = "setImage" /\ cacheCall.id = x
          /\ cacheCall.image # NullImage

\* C16: after setImage(id, img) with a non-null img, contains(id) holds and
\* getImage(id) returns img (an entry already under id is overwritten), and
\* every entry stays as it is across cache calls until removeImage(id),
\* clear() or setImage(id, other non-null image).
C16_EntryPersistsUntilOverwritten ==
    /\ (cacheCall.op = "setImage" /\ cacheCall.image # NullImage) =>
           /\ CacheContains(m_imageCache, cacheCall.id)
           /\ CacheGetImage(m_imageCache, cacheCall.id) = cacheCall.image
    /\ \A x \in DOMAIN cacheCall.before :
           ~Overwrites(x) =>
               /\ CacheContains(m_imageCache, x)
               /\ CacheGetImage(m_imageCache, x) = cacheCall.before[x]

C16_Witness ==
    /\ cacheCall.op = "setImage"
    /\ cacheCall.image # NullImage
    /\ cacheCall.id \in DOMAIN cacheCall.before
    /\ cacheCall.before[cacheCall.id] # cacheCall.image
    /\ m_imageCache[cacheCall.id] = cacheCall.image
    /\ \E x \in DOMAIN cacheCall.before :
          x # cacheCall.id /\ m_imageCache[x] = cacheCall.before[x]

\* C17: setImage(id, null image) leaves the whole cache unchanged: no entry
\* is added and an entry already stored under id is neither removed nor
\* replaced.
C17_NullImageRejected ==
    (cacheCall.op = "setImage" /\ cacheCall.image = NullImage) =>
        m_imageCache = cacheCall.before

C17_Witness ==
    /\ cacheCall.op = "setImage"
    /\ cacheCall.image = NullImage
    /\ cacheCall.id \in DOMAIN m_imageCache
    /\ \E x \in CacheIds : x \notin DOMAIN m_imageCache

\* C18: no stored image is null, so contains(id) is true exactly when
\* getImage(id) returns a non-null image; getImage on an absent id returns
\* the null image and does not modify the cache.
C18_NoNullStored ==
    /\ \A x \in DOMAIN m_imageCache : m_imageCache[x] # NullImage
    /\ \A x \in CacheIds :
           CacheContains(m_imageCache, x) <=>
               CacheGetImage(m_imageCache, x) # NullImage
    /\ (cacheCall.op = "getImage"
           /\ cacheCall.id \notin DOMAIN cacheCall.before) =>
           /\ cacheCall.result = NullImage
           /\ m_imageCache = cacheCall.before

C18_Witness ==
    /\ cacheCall.op = "getImage"
    /\ cacheCall.id \notin DOMAIN cacheCall.before
    /\ cacheCall.result = NullImage
    /\ DOMAIN m_imageCache # {}

\* C19: removeImage(id) on an absent id leaves the cache unchanged;
\* removeImage(id) on a present id deletes exactly that entry; after clear()
\* contains(id) is false for every id.
C19_RemoveAndClear ==
    /\ (cacheCall.op = "removeImage"
           /\ cacheCall.id \notin DOMAIN cacheCall.before) =>
           m_imageCache = cacheCall.before
    /\ (cacheCall.op = "removeImage"
           /\ cacheCall.id \in DOMAIN cacheCall.before) =>
           /\ DOMAIN m_imageCache = (DOMAIN cacheCall.before) \ {cacheCall.id}
           /\ \A x \in DOMAIN m_imageCache :
                  m_imageCache[x] = cacheCall.before[x]
    /\ cacheCall.op = "clear" =>
           \A x \in CacheIds : ~CacheContains(m_imageCache, x)

C19_Witness ==
    /\ cacheCall.op = "removeImage"
    /\ cacheCall.id \in DOMAIN cacheCall.before
    /\ cacheCall.id \notin DOMAIN m_imageCache
    /\ DOMAIN m_imageCache # {}

\* C20: imageCount() is the larger of the number of discovered image paths
\* and the configured gallery size, and no request or timer expiry changes
\* it, so the set of in-bounds ids is fixed after construction.
C20_ImageCountFixed ==
    /\ [](/\ imageCount >= Len(m_imagePaths)
          /\ imageCount >= m_maxConfiguredImages
          /\ imageCount \in {Len(m_imagePaths), m_maxConfiguredImages})
    /\ [][imageCount' = imageCount]_vars

C20_Witness ==
    /\ Len(m_imagePaths) = 1
    /\ m_maxConfiguredImages = 2
    /\ imageCount = 2
    /\ nCalls = 3
    /\ timers = <<>>
    /\ DOMAIN m_imageCache = {0, 1}

\* C21: the deferred load of an uncached in-bounds id attempts a disk decode
\* of path[id] exactly when id < path-table length; for id >= path-table
\* length it generates the placeholder of that id with no disk access, so
\* with an empty path table every in-bounds id resolves to a placeholder.
C21_DiskOrPlaceholder ==
    lastLoad.op = "timer" =>
        /\ lastLoad.disk <=> lastLoad.id < Len(m_imagePaths)
        /\ Len(m_imagePaths) = 0 => ~lastLoad.disk
        /\ lastLoad.decodes =>
               /\ Len(NewSignals) = 1
               /\ NewSignals[1].kind = "imageLoaded"
               /\ previewValid =>
                      /\ NewSignals[1].image.kind = "file"
                      /\ NewSignals[1].image.id = m_imagePaths[lastLoad.id + 1]
        /\ ~lastLoad.disk =>
               LET placeholder == generatePlaceholderImage(lastLoad.id)
               IN  /\ Len(NewSignals) = 1
                   /\ NewSignals[1].id = lastLoad.id
                   /\ placeholder # NullImage =>
                          /\ NewSignals[1].kind = "imageLoaded"
                          /\ NewSignals[1].image = Scaled(placeholder)
                          /\ NewSignals[1].image.kind = "placeholder"
                          /\ NewSignals[1].image.id = lastLoad.id
                   /\ placeholder = NullImage =>
                          NewSignals[1].kind = "loadingError"

C21_Witness ==
    /\ lastLoad.op = "timer"
    /\ ~lastLoad.disk
    /\ Len(m_imagePaths) = 1
    /\ lastLoad.id >= Len(m_imagePaths)
    /\ NewSignals[1].kind = "imageLoaded"
    /\ NewSignals[1].image.kind = "placeholder"
    /\ \E i \in DOMAIN signals : signals[i].image.kind = "file"

\* C22: next() called when currentId = maxId, and previous() called when
\* currentId = 0, return false, leave currentId unchanged and emit no
\* imageIdChanged: navigation stops at the ends instead of wrapping.
C22_StopsAtEnds ==
    /\ (call.op = "next" /\ call.cur = call.max) =>
           /\ call.ret = "false"
           /\ m_currentImageId = call.cur
           /\ call.emitted = <<>>
    /\ (call.op = "previous" /\ call.cur = 0) =>
           /\ call.ret = "false"
           /\ m_currentImageId = call.cur
           /\ call.emitted = <<>>

Pending(r) == {i \in DOMAIN timers : timers[i].req = r}

\* C29 as claimed: when loadImageAsync(id) is called n times for the same
\* uncached in-bounds id before the first deferred work runs, each of the n
\* units performs its own load and cache write and delivers imageLoaded(id),
\* the cache ending with one entry for id.
C29_EachUnitStores ==
    (lastLoad.op = "timer"
        /\ \E i \in DOMAIN timers : timers[i].id = lastLoad.id) =>
        /\ Len(NewSignals) = 1
        /\ NewSignals[1].kind = "imageLoaded"
        /\ NewSignals[1].id = lastLoad.id
        /\ lastLoad.id \in DOMAIN m_imageCache

\* C29, amended: requests are not coalesced. Every call that misses the
\* cache schedules a unit of its own, also when a unit for the same id is
\* pending; every request is either pending once or answered once; every
\* unit performs its own load and delivers one notification for its id. With
\* a cache and a non-empty preview size each unit writes the cache and the
\* notification is imageLoaded(id, stored image); with a null cache or an
\* empty preview size nothing is written.
C29_NotCoalesced ==
    /\ \A r \in 1..nCalls :
           Cardinality(Answers(r)) + Cardinality(Pending(r)) = 1
    /\ (lastLoad.op = "call" /\ ~OutOfBounds(lastLoad.id)
           /\ ~WasCached(lastLoad.id)) =>
           /\ Len(timers) = lastLoad.nTimers + 1
           /\ timers[Len(timers)] = [req |-> lastLoad.req, id |-> lastLoad.id]
    /\ lastLoad.op = "timer" =>
           /\ Len(NewSignals) = 1
           /\ NewSignals[1].req = lastLoad.req
           /\ NewSignals[1].id = lastLoad.id
           /\ lastLoad.disk <=> lastLoad.id < Len(m_imagePaths)
           /\ (cachePtr /\ previewValid) =>
                  /\ NewSignals[1].kind = "imageLoaded"
                  /\ CacheContains(m_imageCache, lastLoad.id)
                  /\ CacheGetImage(m_imageCache, lastLoad.id)
                         = NewSignals[1].image
           /\ (~cachePtr \/ ~previewValid) => m_imageCache = lastLoad.cache

\* Three calls for one id, all before the first unit ran, each answered by
\* its own unit.
C29_Witness ==
    /\ cachePtr /\ previewValid
    /\ timers = <<>>
    /\ Len(signals) = 3
    /\ \A i \in 1..3 :
           /\ signals[i].req = i
           /\ ~signals[i].sync
           /\ signals[i].kind = "imageLoaded"
           /\ signals[i].id = signals[1].id
    /\ DOMAIN m_imageCache = {signals[1].id}

\* The deferred imageLoaded notifications for id emitted before the last
\* loader step.
DeferredFor(id) ==
    {k \in 1..lastLoad.nSignals :
        /\ signals[k].id = id
        /\ ~signals[k].sync
        /\ signals[k].kind = "imageLoaded"}

\* Before the last loader step, a deferred load of the real-path id failed
\* to decode and cached the placeholder under id.
DecodeFailureCached(id) ==
    /\ cachePtr
    /\ id >= 0 /\ id < Len(m_imagePaths)
    /\ \E k \in DeferredFor(id) : signals[k].image.kind = "placeholder"

\* The image of the latest deferred completion for id.
LastStored(id) ==
    LET last == CHOOSE k \in DeferredFor(id) :
                    \A j \in DeferredFor(id) : j <= k
    IN  signals[last].image

\* C30 as claimed: once the deferred load of a real-path id has failed to
\* decode and cached the placeholder under that id, every later
\* loadImageAsync(id) returns that cached placeholder synchronously and
\* schedules no deferred work, so the disk is never attempted again.
C30_PlaceholderSticks ==
    (lastLoad.op = "call" /\ DecodeFailureCached(lastLoad.id)) =>
        /\ NewSignals = <<Signal(lastLoad.req, lastLoad.id, "imageLoaded",
                                 Scaled(generatePlaceholderImage(lastLoad.id)),
                                 "", TRUE)>>
        /\ NothingScheduled

\* C30, amended: once the deferred load of a real-path id has failed to
\* decode and cached the placeholder under that id, every later
\* loadImageAsync(id) is answered synchronously from the cache and schedules
\* no deferred work, so later calls never attempt the disk. The image
\* returned is the one of the latest deferred completion for id: the
\* placeholder, unless a unit for the same id that was already pending has
\* completed since and overwritten the entry. Units for an id that run after
\* it was served from the cache all belong to earlier requests.
C30_NoRetry ==
    /\ (lastLoad.op = "call" /\ DecodeFailureCached(lastLoad.id)) =>
           /\ NewSignals = <<Signal(lastLoad.req, lastLoad.id, "imageLoaded",
                                    LastStored(lastLoad.id), "", TRUE)>>
           /\ NothingScheduled
           /\ m_imageCache = lastLoad.cache
           /\ LastStored(lastLoad.id) = lastLoad.cache[lastLoad.id]
    /\ \A k \in DOMAIN signals :
           (signals[k].sync /\ signals[k].kind = "imageLoaded") =>
               /\ \A i \in DOMAIN timers :
                      timers[i].id = signals[k].id =>
                          timers[i].req < signals[k].req
               /\ \A j \in DOMAIN signals :
                      (k < j /\ ~signals[j].sync
                          /\ signals[j].id = signals[k].id) =>
                          signals[j].req < signals[k].req

C30_Witness ==
    /\ lastLoad.op = "call"
    /\ DecodeFailureCached(lastLoad.id)
    /\ Len(NewSignals) = 1
    /\ NewSignals[1].sync
    /\ NewSignals[1].image.kind = "placeholder"
    /\ NewSignals[1].image.id = lastLoad.id
    /\ timers = <<>>

\* C31: when the cache is written only by the loader, every key in the cache
\* lies in [0, imageCount()) in every reachable state, so the cache never
\* holds more than imageCount() entries.
C31_CacheKeysInBounds ==
    /\ \A x \in DOMAIN m_imageCache : 0 <= x /\ x < imageCount
    /\ Cardinality(DOMAIN m_imageCache) <= imageCount

\* Every in-bounds id is cached, and an out-of-bounds id was requested.
C31_Witness ==
    /\ imageCount = 2
    /\ DOMAIN m_imageCache = 0..(imageCount - 1)
    /\ timers = <<>>
    /\ lastLoad.op = "call"
    /\ OutOfBounds(lastLoad.id)

\* C32: the loader never evicts: no loadImageAsync call and no deferred
\* completion removes a cache entry, so under loader activity alone the set
\* of cached ids only grows, and an id once cached is served from the cache
\* by every later request.
C32_LoaderNeverEvicts ==
    /\ [][DOMAIN m_imageCache \subseteq DOMAIN m_imageCache']_vars
    /\ [](\A x \in DOMAIN lastLoad.cache : x \in DOMAIN m_imageCache)
    /\ []((lastLoad.op = "call" /\ lastLoad.id \in DOMAIN lastLoad.cache) =>
             /\ NewSignals = <<Signal(lastLoad.req, lastLoad.id,
                                      "imageLoaded",
                                      lastLoad.cache[lastLoad.id], "", TRUE)>>
             /\ NothingScheduled)
    /\ [](\A k \in DOMAIN signals :
             (signals[k].kind = "imageLoaded" /\ ~signals[k].sync
                 /\ cachePtr /\ previewValid) =>
                 signals[k].id \in DOMAIN m_imageCache)

\* An id cached by the first completion is still served from the cache
\* after another id was loaded and cached.
C32_Witness ==
    /\ Len(signals) = 3
    /\ ~signals[1].sync /\ signals[1].kind = "imageLoaded"
    /\ ~signals[2].sync /\ signals[2].kind = "imageLoaded"
    /\ signals[2].id # signals[1].id
    /\ signals[3].sync /\ signals[3].id = signals[1].id
    /\ signals[3].image = signals[1].image
    /\ Cardinality(DOMAIN m_imageCache) = 2

\* C33: every imageLoaded(id, img) notification carries a non-null image;
\* when the deferred work ends with no usable image (a null scaling result
\* included), loadingError(id, ...) is emitted instead of imageLoaded and
\* nothing is cached.
C33_ImageLoadedNonNull ==
    /\ \A k \in DOMAIN signals :
           signals[k].kind = "imageLoaded" => signals[k].image # NullImage
    /\ (lastLoad.op = "timer" /\ Len(NewSignals) = 1
           /\ NewSignals[1].image = NullImage) =>
           /\ NewSignals[1].kind = "loadingError"
           /\ NewSignals[1].id = lastLoad.id
           /\ m_imageCache = lastLoad.cache

\* C34 as claimed: a loader constructed with a null cache pointer answers
\* every in-bounds request with exactly one imageLoaded notification, always
\* through the deferred path.
C34_NullCacheAlwaysImageLoaded ==
    (~cachePtr /\ lastLoad.op = "timer") =>
        /\ Len(NewSignals) = 1
        /\ NewSignals[1].kind = "imageLoaded"
        /\ NewSignals[1].id = lastLoad.id
        /\ ~NewSignals[1].sync

\* C34, amended: a loader constructed with a null cache pointer stores
\* nothing and answers no in-bounds request synchronously: every in-bounds
\* call schedules a unit of its own, every request is either pending once or
\* answered once, and every unit repeats the load (the disk decode for a
\* real-path id) and delivers exactly one notification. With a non-empty
\* preview size that notification is imageLoaded with a non-null image; with
\* an empty preview size it is loadingError or an imageLoaded carrying the
\* null image.
C34_NullCacheAlwaysDeferred ==
    ~cachePtr =>
        /\ m_imageCache = EmptyCache
        /\ \A k \in DOMAIN signals :
               ~OutOfBounds(signals[k].id) => ~signals[k].sync
        /\ \A r \in 1..nCalls :
               Cardinality(Answers(r)) + Cardinality(Pending(r)) = 1
        /\ (lastLoad.op = "call" /\ ~OutOfBounds(lastLoad.id)) =>
               /\ NewSignals = <<>>
               /\ Len(timers) = lastLoad.nTimers + 1
               /\ timers[Len(timers)] =
                      [req |-> lastLoad.req, id |-> lastLoad.id]
        /\ lastLoad.op = "timer" =>
               /\ Len(NewSignals) = 1
               /\ NewSignals[1].req = lastLoad.req
               /\ NewSignals[1].id = lastLoad.id
               /\ ~NewSignals[1].sync
               /\ lastLoad.disk <=> lastLoad.id < Len(m_imagePaths)
               /\ previewValid =>
                      /\ NewSignals[1].kind = "imageLoaded"
                      /\ NewSignals[1].image # NullImage
               /\ ~previewValid =>
                      \/ NewSignals[1].kind = "loadingError"
                      \/ NewSignals[1].image = NullImage

\* The same real-path id is loaded from the disk a second time, after an
\* earlier load of it was already delivered.
C34_Witness ==
    /\ ~cachePtr /\ previewValid
    /\ lastLoad.op = "timer"
    /\ lastLoad.disk
    /\ Len(NewSignals) = 1
    /\ NewSignals[1].kind = "imageLoaded"
    /\ \E k \in 1..lastLoad.nSignals :
          /\ signals[k].id = lastLoad.id
          /\ signals[k].kind = "imageLoaded"
          /\ ~signals[k].sync
    /\ m_imageCache = EmptyCache

\* ---------------------------------------------------- application properties

\* C25: the window discards stale completions: an imageLoaded(id, img)
\* notification changes the displayed image only if id equals the
\* navigator's currentImageId() at delivery time, so whenever the displayed
\* image is updated its id equals the current selection.
C25_StaleCompletionsDiscarded ==
    /\ [](delivery.kind = "imageLoaded" =>
             IF delivery.id = m_currentImageId
             THEN imageLabel = delivery.image
             ELSE imageLabel = delivery.before)
    /\ [][imageLabel' # imageLabel =>
             /\ delivery'.kind = "imageLoaded"
             /\ delivery'.id = m_currentImageId'
             /\ imageLabel'.id = m_currentImageId']_vars

C25_Witness ==
    /\ delivery.kind = "imageLoaded"
    /\ delivery.id # m_currentImageId
    /\ imageLabel = delivery.before
    /\ imageLabel # NullImage
    /\ imageLabel.id = m_currentImageId
    /\ ~signals[Len(signals)].sync

\* C26: in the composed system (window, navigator, loader, imageCount() >= 1),
\* under any interleaving of next / previous clicks and deferred completions:
\* whenever all scheduled deferred work has run, the displayed image is the
\* one for the navigator's currentImageId(), the one the cache holds for it;
\* a late completion for another id never leaves a stale image on screen.
C26_DisplayedMatchesSelection ==
    timers = <<>> =>
        /\ imageLabel # NullImage
        /\ imageLabel.id = m_currentImageId
        /\ imageLabel = CacheGetImage(m_imageCache, m_currentImageId)

\* The last completion was a late one for another id, after the selection
\* had come back to an id served from the cache.
C26_Witness ==
    /\ timers = <<>>
    /\ delivery.kind = "imageLoaded"
    /\ delivery.id # m_currentImageId
    /\ lastLoad.op = "timer"
    /\ imageLabel.id = m_currentImageId
    /\ \E i \in DOMAIN signals : signals[i].sync

\* C28: in the application as wired in main (navigator built with
\* max = imageCount() - 1, imageCount() >= 1, the window requesting a load on
\* construction and on every imageIdChanged), every loadImageAsync call is
\* for an id in [0, imageCount()), so no loadingError "Image ID out of
\* bounds" is emitted after any sequence of next / previous clicks.
C28_RequestsInBounds ==
    /\ lastLoad.op = "call" => ~OutOfBounds(lastLoad.id)
    /\ \A i \in DOMAIN timers : ~OutOfBounds(timers[i].id)
    /\ \A i \in DOMAIN signals :
           /\ ~OutOfBounds(signals[i].id)
           /\ signals[i].kind # "loadingError"

\* previous() at id 0 wrapped to the last id, and that id was requested.
C28_Witness ==
    /\ call.op = "previous" /\ call.cur = 0
    /\ lastLoad.op = "call"
    /\ lastLoad.id = imageCount - 1
    /\ lastLoad.req = nCalls
    /\ nCalls >= 2

====
